---- MODULE Spec2Model ----
(***************************************************************************)
(* Stonehenge (klabe/stonehenge): the L2 trigger record loop of            *)
(* src/stonehenge.cpp and the alarm rate limiter of src/curl.cpp.          *)
(*                                                                         *)
(* Clock values are 64-bit unsigned in the program and the rollover point  *)
(* is 2^43.  The model keeps every width and every threshold, scaled down  *)
(* so that the arithmetic stays inside the model checker's integers:       *)
(*     uint64_t   -> WordBits bits (arithmetic % 2^WordBits)               *)
(*     int        -> IntBits bits, two's complement                        *)
(*     maxtime    -> 2^TimeBits          (program: 2^43)                   *)
(*     maxjump    -> 4 ticks             (program: 10*50000000)            *)
(*     maxdrift   -> 2 ticks             (program: 5000)                   *)
(* The order maxdrift < maxjump < 2^(IntBits-1) < maxtime < 2^WordBits of  *)
(* the program is kept.                                                    *)
(***************************************************************************)
EXTENDS Integers, Sequences, FiniteSets

(***************************************************************************)
(* Bounds of the model.                                                    *)
(***************************************************************************)
\* number of records the input stream may hold
MaxRecords == 3
\* last wall-clock second of a run (the clock starts at second 1)
MaxWall == 2
\* requests the limiter may receive within one second (SpecAlarm)
MaxBurst == 7
\* scaled widths and thresholds, see the header
WordBits == 8
IntBits == 4
TimeBits == 4
maxjump == 4
maxdrift == 2
\* bits of one byte of a record word (program: 8), and the record buffer holds
\* 2^BufBits words (program: 2^20)
ByteBits == 3
BufBits == 4
\* sub-records the decoder may walk through in one record
MaxChain == 3

\* src/stonehenge.cpp:54
MAX_NHIT == 10240

\* src/stonehenge.cpp:49   #define MAX_BUFFSIZE 0x400000UL, in bytes of 4 to a word
MAX_BUFFSIZE == 4 * 2^BufBits

\* src/stonehenge.cpp:78   static const uint64_t maxtime = (1UL << 43)
maxtime == 2^TimeBits

\* modulus of uint64_t arithmetic, and of int
UMod == 2^WordBits
IMod == 2^IntBits

\* x as a uint64_t
U64(x) == x % UMod

\* conversion of a uint64_t to int (keeps the low bits, two's complement)
ToInt(u) == LET m == u % IMod IN IF m >= IMod \div 2 THEN m - IMod ELSE m

(***************************************************************************)
(* src/curl.cpp: the alarm limiter.                                        *)
(***************************************************************************)
\* enum alarm_type of curl.h, the index into max[], alarmn[] and overflow[]
alarm_type == [DEBUG |-> 0, INFO |-> 1, SUCCESS |-> 2, WARNING |-> 3, ERROR |-> 4]

Classes == 0..4

\* static const int max[5] = {5, 3, 2, 5, 1}
max == [i \in Classes |-> <<5, 3, 2, 5, 1>>[i + 1]]

\* the log levels the program uses (10 stands for any level that is not 20, 21, 30, 40)
Levels == {10, 20, 21, 30, 40}

\* alarm_type type(const int level)
type(level) ==
  IF level = 20 THEN alarm_type.INFO
  ELSE IF level = 21 THEN alarm_type.SUCCESS
  ELSE IF level = 30 THEN alarm_type.WARNING
  ELSE IF level = 40 THEN alarm_type.ERROR
  ELSE alarm_type.DEBUG

Zero5 == [i \in Classes |-> 0]

RECURSIVE SumTo(_, _)
\* f[0] + ... + f[n], the loop "for(i=0; i<5; i++) overflowsum += overflow[i]"
SumTo(f, n) == IF n < 0 THEN 0 ELSE f[n] + SumTo(f, n - 1)

\* what reaches the notification channel (curl_easy_perform), and what is dropped
Summary(n) == [what |-> "summary", level |-> 40, n |-> n]
Message(level) == [what |-> "message", level |-> level, n |-> 0]
Dropped(level) == [what |-> "dropped", level |-> level, n |-> 0]

\* The limiter's static state as one record L = [alarmn, overflow, oldwalltime],
\* with L.out the notifications posted so far by the running operation.
Limiter(a, o, w) == [alarmn |-> a, overflow |-> o, oldwalltime |-> w, out |-> <<>>]

\* the flush with "if(overflowsum)" left out
alarm_flush_Always(L, walltime) ==
  IF walltime # L.oldwalltime
  THEN [alarmn |-> Zero5, overflow |-> Zero5, oldwalltime |-> walltime,
        out |-> Append(L.out, Summary(SumTo(L.overflow, 4)))]
  ELSE L

\* the flush with "overflow[i] = 0" left out
alarm_flush_KeepOverflow(L, walltime) ==
  IF walltime # L.oldwalltime
  THEN LET overflowsum == SumTo(L.overflow, 4)
       IN [alarmn |-> Zero5, overflow |-> L.overflow, oldwalltime |-> walltime,
           out |-> IF overflowsum # 0 THEN Append(L.out, Summary(overflowsum))
                   ELSE L.out]
  ELSE L

\* lines 33-52 of alarm(): the flush when the wall-clock second has changed
alarm_flush(L, walltime) ==
  IF walltime # L.oldwalltime
  THEN LET overflowsum == SumTo(L.overflow, 4)
       IN [alarmn |-> Zero5, overflow |-> Zero5, oldwalltime |-> walltime,
           out |-> IF overflowsum # 0 THEN Append(L.out, Summary(overflowsum))
                   ELSE L.out]
  ELSE L

\* the count with the budget test off by one
alarm_count_OffByOne(L, level) ==
  LET c == type(level)
      n == L.alarmn[c] + 1
  IN IF n > max[c] + 1
     THEN [L EXCEPT !.alarmn[c] = n, !.overflow[c] = @ + 1,
                    !.out = Append(@, Dropped(level))]
     ELSE [L EXCEPT !.alarmn[c] = n, !.out = Append(@, Message(level))]

\* lines 53-64 of alarm(): count the request, forward it or drop it
alarm_count(L, level) ==
  LET c == type(level)
      n == L.alarmn[c] + 1
  IN IF n > max[c]
     THEN [L EXCEPT !.alarmn[c] = n, !.overflow[c] = @ + 1,
                    !.out = Append(@, Dropped(level))]
     ELSE [L EXCEPT !.alarmn[c] = n, !.out = Append(@, Message(level))]

\* void alarm(const int level, const char* msg), walltime = time(NULL)
alarm(L, level, walltime) == alarm_count(alarm_flush(L, walltime), level)

\* void Flusherrors() of curl.h: the flush of the limiter that main() asks for on a
\* second boundary and at the end of the stream; one skip notification for every
\* class with a suppressed count, then all counters zero
RECURSIVE FlushFrom(_, _)
FlushFrom(L, c) ==
  IF c > 4 THEN [L EXCEPT !.alarmn = Zero5, !.overflow = Zero5]
  ELSE FlushFrom(IF L.overflow[c] # 0
                 THEN [L EXCEPT !.out = Append(@, Summary(L.overflow[c]))]
                 ELSE L, c + 1)

Flusherrors(L) == FlushFrom(L, 0)

\* the calls an operation of main() makes on the limiter, in program order
Alarm(level) == [f |-> "alarm", level |-> level]
Flush == [f |-> "Flusherrors", level |-> 0]

RECURSIVE RunCalls(_, _, _)
RunCalls(L, calls, walltime) ==
  IF calls = <<>> THEN L
  ELSE RunCalls(IF Head(calls).f = "Flusherrors" THEN Flusherrors(L)
                ELSE alarm(L, Head(calls).level, walltime),
                Tail(calls), walltime)

(***************************************************************************)
(* src/stonehenge.cpp: clocks.                                             *)
(***************************************************************************)
\* bool IsConsistent(alltimes & newat, alltimes standard, const int dd):
\* the verdict, newat as the call leaves it, and the alarms raised
IsConsistent(newat, std, dd) ==
  LET backward == newat.time50 < std.time50
      rollover == /\ backward
                  /\ U64(std.time50 + newat.time50) < U64(maxtime + maxjump)
                  /\ dd < maxdrift
                  /\ std.time50 > U64(maxtime - maxjump)
      n1 == IF rollover THEN [newat EXCEPT !.epoch = @ + 1] ELSE newat
      a1 == IF rollover THEN <<Alarm(20)>> ELSE <<>>
  IN IF backward /\ ~rollover
     THEN [ok |-> FALSE, newat |-> newat, alarms |-> <<Alarm(30)>>, newepoch |-> FALSE]
     ELSE IF U64(n1.time50 - std.time50) > maxjump
     THEN [ok |-> FALSE, newat |-> n1, alarms |-> a1 \o <<Alarm(30)>>,
           newepoch |-> rollover]
     ELSE [ok |-> TRUE, newat |-> n1, alarms |-> a1, newepoch |-> rollover]

\* const int dd of compute_times (lines 310-312), from unsigned differences
Drift(oldat, newat) ==
  LET t10 == U64(U64(oldat.time10 - newat.time10) * 5)
      t50 == U64(oldat.time50 - newat.time50)
  IN ToInt(IF t10 > t50 THEN U64(t10 - t50) ELSE U64(t50 - t10))

\* line 340 reading the 10 MHz clock instead of the 50 MHz clock
AcceptTime_Clock10(newat) ==
  [newat EXCEPT !.longtime = U64(newat.time10 + maxtime * newat.epoch)]

\* line 340: the rollover-free time of an accepted reading
AcceptTime(newat) ==
  [newat EXCEPT !.longtime = U64(newat.time50 + maxtime * newat.epoch)]

\* lines 349-351: the time state of a forced reset
ResetTime(newat) ==
  [newat EXCEPT !.epoch = 0, !.longtime = newat.time50, !.exptime = 0]

\* the first strike handing on the rejected reading
StrikeTime_KeepReading(newat, std) == newat

\* line 357: the time state of a first strike is the last good one
StrikeTime(newat, std) == std

\* the branch with the test of problem left out: every rejection resets
Branch_EagerReset(ok, prob) == IF ok THEN "accept" ELSE "reset"

\* lines 339-358: the branch compute_times takes on IsConsistent's verdict ok
\* with its static problem
Branch(ok, prob) == IF ok THEN "accept" ELSE IF prob THEN "reset" ELSE "strike"

\* static alltimes compute_times(hits, oldat, count, passretrig, retrig, stat, b)
\* S holds what the function reads and writes besides oldat: its statics standard
\* and problem, the references passretrig, retrig and stat.orphan, and NHITCUT.
compute_times(h, oldat, eventn, S, cfg) ==
  LET n0 == [oldat EXCEPT !.time50 = h.time50, !.time10 = h.time10]
      dd == Drift(oldat, n0)
      driftalarm == IF dd > maxdrift THEN <<Alarm(30)>> ELSE <<>>
      d50 == U64(n0.time50 - oldat.time50)
      isretrig == d50 > 0 /\ d50 <= cfg.retrigwindow
      S1 == [S EXCEPT !.retrig = isretrig,
                      !.passretrig = IF isretrig THEN @ ELSE FALSE]
      ic == IsConsistent(n0, S.standard, dd)
      br == Branch(ic.ok, S.problem)
  IN IF eventn = 1
     THEN LET n1 == [n0 EXCEPT !.longtime = n0.time50]
          IN [newat |-> n1,
              S |-> [S EXCEPT !.standard = n1, !.problem = FALSE,
                              !.orphan = IF n1.time50 = 0 THEN @ + 1 ELSE @],
              alarms |-> <<>>, outcome |-> "first", rejected |-> FALSE,
              newepoch |-> FALSE, dd |-> 0, drift |-> FALSE]
     ELSE IF n0.time50 = 0
     THEN [newat |-> [n0 EXCEPT !.time50 = oldat.time50],
           S |-> [S1 EXCEPT !.orphan = @ + 1],
           alarms |-> driftalarm, outcome |-> "orphan", rejected |-> FALSE,
           newepoch |-> FALSE, dd |-> dd, drift |-> driftalarm # <<>>]
     ELSE IF br = "accept"
     THEN LET n1 == AcceptTime(ic.newat)
          IN [newat |-> n1,
              S |-> [S1 EXCEPT !.standard = n1, !.problem = FALSE],
              alarms |-> driftalarm \o ic.alarms, outcome |-> br,
              rejected |-> ~ic.ok, newepoch |-> ic.newepoch, dd |-> dd,
           drift |-> driftalarm # <<>>]
     ELSE IF br = "reset"
     THEN LET n1 == ResetTime(ic.newat)
          IN [newat |-> n1,
              S |-> [S1 EXCEPT !.standard = n1, !.problem = FALSE,
                               !.NHITCUT = cfg.nhithi],
              alarms |-> driftalarm \o ic.alarms \o <<Alarm(40)>>, outcome |-> br,
              rejected |-> ~ic.ok, newepoch |-> ic.newepoch, dd |-> dd,
           drift |-> driftalarm # <<>>]
     ELSE [newat |-> StrikeTime(ic.newat, S.standard),
           S |-> [S1 EXCEPT !.problem = TRUE],
           alarms |-> driftalarm \o ic.alarms, outcome |-> br,
           rejected |-> ~ic.ok, newepoch |-> ic.newepoch, dd |-> dd,
           drift |-> driftalarm # <<>>]

\* static void updatetime(alltimes & alltime), time(NULL) = walltime
updatetime(at, walltime) ==
  [at EXCEPT !.oldwalltime = IF at.walltime # 0 THEN at.walltime ELSE @,
             !.walltime = walltime]

(***************************************************************************)
(* src/stonehenge.cpp: threshold and filter.                               *)
(***************************************************************************)
\* setthreshold without the expiry test of its second if
setthreshold_NoExpiry(nhit, at, cut, cfg) ==
  LET arm == nhit > cfg.lothresh
      a1 == IF arm THEN [at EXCEPT !.exptime = U64(at.longtime + cfg.lowindow)] ELSE at
      c1 == IF arm THEN cfg.nhitlo ELSE cut
  IN [alltime |-> a1, NHITCUT |-> c1]

\* static void setthreshold(uint16_t nhit, alltimes & alltime): alltime and NHITCUT
setthreshold(nhit, at, cut, cfg) ==
  LET arm == nhit > cfg.lothresh
      a1 == IF arm THEN [at EXCEPT !.exptime = U64(at.longtime + cfg.lowindow)] ELSE at
      c1 == IF arm THEN cfg.nhitlo ELSE cut
  IN [alltime |-> a1,
      NHITCUT |-> IF a1.longtime > a1.exptime THEN cfg.nhithi ELSE c1]

RECURSIVE BitAnd(_, _)
\* a & b on unsigned values
BitAnd(a, b) ==
  IF a = 0 \/ b = 0 THEN 0
  ELSE (a % 2) * (b % 2) + 2 * BitAnd(a \div 2, b \div 2)

\* the filter with a histogram loop that starts at bucket 1
l2filter_SkipZero(nhit, word, pr, rt, st, cut, cfg) ==
  LET c1 == nhit > cut
      c2 == BitAnd(word, cfg.bitmask) # 0
      c3 == pr /\ rt /\ nhit > cfg.retrigcut
      key == (IF c1 THEN 1 ELSE 0) + (IF c2 THEN 2 ELSE 0) + (IF c3 THEN 4 ELSE 0)
  IN [pass |-> c1 \/ c2 \/ c3, key |-> key,
      stats |-> [i \in 0..7 |-> IF key = i /\ i # 0 THEN st[i] + 1 ELSE st[i]]]

\* the filter with ">=" for the hit-count cut
l2filter_AtLeast(nhit, word, pr, rt, st, cut, cfg) ==
  LET c1 == nhit >= cut
      c2 == BitAnd(word, cfg.bitmask) # 0
      c3 == pr /\ rt /\ nhit > cfg.retrigcut
      key == (IF c1 THEN 1 ELSE 0) + (IF c2 THEN 2 ELSE 0) + (IF c3 THEN 4 ELSE 0)
  IN [pass |-> c1 \/ c2 \/ c3, key |-> key,
      stats |-> [i \in 0..7 |-> IF key = i THEN st[i] + 1 ELSE st[i]]]

\* bool l2filter(nhit, word, passretrig, retrig, stats): the verdict, the bucket
\* and the histogram
l2filter(nhit, word, pr, rt, st, cut, cfg) ==
  LET c1 == nhit > cut
      c2 == BitAnd(word, cfg.bitmask) # 0
      c3 == pr /\ rt /\ nhit > cfg.retrigcut
      key == (IF c1 THEN 1 ELSE 0) + (IF c2 THEN 2 ELSE 0) + (IF c3 THEN 4 ELSE 0)
  IN [pass |-> c1 \/ c2 \/ c3, key |-> key,
      stats |-> [i \in 0..7 |-> IF key = i THEN st[i] + 1 ELSE st[i]]]

(***************************************************************************)
(* src/stonehenge.cpp: records, configuration and the inputs of a run.     *)
(***************************************************************************)
\* the cut parameters of a configuration (config.h); the zero record is the
\* zero-initialised static "config" before SetConfig
NoConfig ==
  [nhithi |-> 0, nhitlo |-> 0, lothresh |-> 0, lowindow |-> 0,
   retrigcut |-> 0, retrigwindow |-> 0, bitmask |-> 0]

\* the default profile and allconfigs[2] as ReadConfig left them: a run's inputs
DefaultConfig ==
  [nhithi |-> 3, nhitlo |-> 1, lothresh |-> 4, lowindow |-> 1,
   retrigcut |-> 1, retrigwindow |-> 1, bitmask |-> 1]

allconfigs ==
  [i \in 0..1 |->
     IF i = 0
     THEN [nhithi |-> 3, nhitlo |-> 1, lothresh |-> 4, lowindow |-> 2,
           retrigcut |-> 0, retrigwindow |-> 2, bitmask |-> 1]
     ELSE [nhithi |-> 4, nhitlo |-> 2, lothresh |-> 3, lowindow |-> 0,
           retrigcut |-> 1, retrigwindow |-> 1, bitmask |-> 3]]

\* void SetConfig(runtype, allconfigs, config) of config.h: runtype 0 asks for the
\* default, any other run type names one of the two profiles
SetConfig(runtype) ==
  IF runtype = 0 THEN DefaultConfig ELSE allconfigs[runtype % 2]

\* WriteConfig (lines 392-436): PQresultStatus of an INSERT is never
\* PGRES_TUPLES_OK, so with or without a connection it raises two warnings
WriteConfig == <<Alarm(30), Alarm(30)>>

\* run types of run-header records
RunTypes == {1, 2}

\* the fields of the hit records of a run that varies both clocks (Spec)
Time50Vals == {0, 1, 2, maxtime - 2}
Time10Vals == {0, 1}
NhitVals == {5}
WordVals == {2}

\* of a run that varies the primary clock and the hit count (SpecThreshold)
ThresholdTime50Vals == {0, 1, 2, maxtime - 2}
ThresholdTime10Vals == {0}
ThresholdNhitVals == {2, 5}
ThresholdWordVals == {2}

\* of a run of closely spaced records with few or many hits (SpecRetrig)
RetrigTime50Vals == {1, 2, 3}
RetrigNhitVals == {0, 5}

\* of a run that varies the hit count and the trigger word (SpecFilter)
FilterTime50Vals == {1, 2}
FilterTime10Vals == {0}
FilterNhitVals == {0, 2, 5}
FilterWordVals == {2, 3}

(***************************************************************************)
(* The record buffer of a hit record.  A word is two bytes of ByteBits bits *)
(* (program: four bytes of 8); a sub-record header holds the "more follow" *)
(* flag in its top bit and the word count in the bits below.  The buffer   *)
(* is the words from CalPckType on, w[1] being CalPckType, followed by the *)
(* 6 trigger-card words, 3 words per hit and the sub-records; head counts  *)
(* the swaps of the words of the PmtEventRecord before CalPckType.  Each   *)
(* word keeps its content v and the number n of times it was swapped.      *)
(***************************************************************************)
ByteMod == 2^ByteBits
SUB_NOT_LAST == 2^(2 * ByteBits - 1)
SUB_LENGTH_MASK == SUB_NOT_LAST - 1

\* the content of a word with its bytes in the opposite order
ByteSwap(v) == (v % ByteMod) * ByteMod + (v \div ByteMod)

\* line 528: the trigger-card data are 6 words
MtcWords == 6

\* the words of the PmtEventRecord from CalPckType on, and the first hit word
PmtTail == 1 + MtcWords
HitPos == PmtTail + 1

\* the words ws, each with its bytes swapped once more
SwapWords(ws) ==
  [j \in 1..Len(ws) |-> [v |-> ByteSwap(ws[j].v), n |-> ws[j].n + 1]]

\* SWAP_INT32(&w[i], k): swap k words in place; oob tells that the buffer was left
SWAP_INT32(buf, i, k) ==
  IF i + k - 1 > Len(buf.w)
  THEN [buf EXCEPT !.oob = TRUE]
  ELSE [buf EXCEPT !.w = SubSeq(@, 1, i - 1)
                         \o SwapWords(SubSeq(@, i, i + k - 1))
                         \o SubSeq(@, i + k, Len(@))]

\* SWAP_PMT_RECORD(pmtEventPtr): swap the words of the PmtEventRecord
SWAP_PMT_RECORD(buf) == [SWAP_INT32(buf, 1, PmtTail) EXCEPT !.head = @ + 1]

\* a sub-record header with the flag set and word count n, in host order
Flagged(n) == SUB_NOT_LAST + n

\* the buffer of a hit record as it arrives: header cal, nwords words of hit
\* data, then the words tail, all given in host order and stored in wire order
Buffer(cal, nwords, tail) ==
  LET host == <<cal>> \o [i \in 1..(MtcWords + nwords) |-> 0] \o tail
  IN [head |-> 0, oob |-> FALSE,
      w |-> [i \in DOMAIN host |-> [v |-> ByteSwap(host[i]), n |-> 0]]]

\* the words of a buffer that were swapped an odd number of times
Odd(buf) ==
  [head |-> buf.head % 2 = 1, w |-> {i \in DOMAIN buf.w : buf.w[i].n % 2 = 1}]
NoneOdd == [head |-> FALSE, w |-> {}]

\* a record as NextRecord hands it over; bank is its bank_name.  NPmtHit, the
\* clocks and the trigger word are given as host-order values.  A record with
\* more than MAX_NHIT hits carries no hit data here: they are never touched
Record(bank, runtype, nhit, t50, t10, word) ==
  [bank |-> bank, runtype |-> runtype, NPmtHit |-> nhit, time50 |-> t50,
   time10 |-> t10, word |-> word,
   buf |-> Buffer(0, IF nhit > MAX_NHIT THEN 0 ELSE 3 * nhit, <<>>)]

\* a hit record with one hit, the first sub-record header cal and the words tail
ChainRecord(cal, tail) ==
  [Record("ZDAB", 0, 1, 1, 0, 2) EXCEPT !.buf = Buffer(cal, 3, tail)]

\* the first sub-record header and the words after the hit data of the records of
\* a run that varies the sub-record chain (SpecDecode); FirstSub is the jump from
\* CalPckType to the word after the data of one hit
FirstSub == MtcWords + 3 + 1
CalVals == {0, Flagged(FirstSub), Flagged(FirstSub - 2), Flagged(MAX_BUFFSIZE \div 4 + 1)}
TailVals == {<<>>, <<1>>, <<2, 0>>, <<Flagged(2), 0, 1>>}

\* uint32_t FillHeaderBuffer(zrec) of snbuf.h: the run type of a run header, else 0
FillHeaderBuffer(zrec) == IF zrec.bank = "RHDR" THEN zrec.runtype ELSE 0

\* static hitinfo InitHit()
InitHit == [time50 |-> 0, time10 |-> 0, triggertype |-> 0, nhit |-> 0]

RECURSIVE Walk(_, _, _, _)
\* lines 536-550 of ReadHits: the walk along the sub-record chain from header
\* w[pos]; size is event_size, escaped tells that a jump was too long (line 540),
\* hang that more than MaxChain sub-records were walked
Walk(buf, pos, size, fuel) ==
  LET header == buf.w[pos].v
      jump == header % SUB_NOT_LAST
      there == pos + jump
  IN IF header < SUB_NOT_LAST
     THEN [buf |-> buf, size |-> size, escaped |-> FALSE, hang |-> FALSE]
     ELSE IF jump > MAX_BUFFSIZE \div 4
     THEN [buf |-> buf, size |-> size, escaped |-> TRUE, hang |-> FALSE]
     ELSE IF fuel = 0
     THEN [buf |-> buf, size |-> size, escaped |-> FALSE, hang |-> TRUE]
     ELSE IF there > Len(buf.w)
     THEN [buf |-> [buf EXCEPT !.oob = TRUE], size |-> size, escaped |-> FALSE,
           hang |-> FALSE]
     ELSE LET b1 == SWAP_INT32(SWAP_INT32(buf, pos, 1), there, 1)
              datawords == b1.w[there].v % SUB_NOT_LAST
              b2 == SWAP_INT32(b1, there, datawords)
          IN IF b2.oob
             THEN [buf |-> b2, size |-> size, escaped |-> FALSE, hang |-> FALSE]
             ELSE Walk(b2, there, size + datawords, fuel - 1)

\* static int ReadHits(nZDAB* zrec, hitinfo& hit): the return value, hit, the
\* alarms, the record buffer it leaves, whether a jump escaped, the record length
ReadHits(zrec, hit) ==
  IF zrec.bank # "ZDAB"
  THEN [ret |-> 1, hit |-> hit, alarms |-> <<>>, buf |-> zrec.buf,
        escaped |-> FALSE, defined |-> TRUE, reclen |-> 0]
  ELSE LET swapped == SWAP_PMT_RECORD(zrec.buf)
           read == [time50 |-> zrec.time50, time10 |-> zrec.time10,
                    triggertype |-> zrec.word, nhit |-> zrec.NPmtHit]
       IN IF zrec.NPmtHit > MAX_NHIT
          THEN [ret |-> 1, hit |-> [hit EXCEPT !.nhit = zrec.NPmtHit],
                alarms |-> <<Alarm(30)>>, buf |-> swapped, escaped |-> FALSE,
                defined |-> TRUE, reclen |-> 0]
          ELSE LET wk == Walk(swapped, 1, 20 + 3 * zrec.NPmtHit, MaxChain)
               IN IF wk.escaped
                  THEN [ret |-> 0, hit |-> read, alarms |-> <<>>, buf |-> wk.buf,
                        escaped |-> TRUE, defined |-> TRUE, reclen |-> 0]
                  ELSE [ret |-> 0, hit |-> read, alarms |-> <<>>,
                        buf |-> SWAP_INT32(SWAP_PMT_RECORD(wk.buf), HitPos,
                                           3 * zrec.NPmtHit),
                        escaped |-> FALSE,
                        defined |-> ~wk.hang /\ ~wk.buf.oob,
                        reclen |-> wk.size]

\* the records with a chain on which the walk of ReadHits ends inside the record
ChainRecords ==
  {zrec \in {ChainRecord(cal, tail) : cal \in CalVals, tail \in TailVals} :
     ReadHits(zrec, InitHit).defined}

\* counts CountInit()
CountInit == [eventn |-> 0, recordn |-> 0]

\* the values an uninitialised uint64_t field may hold
Indeterminate == {0, UMod - 1}

\* the values GetEpoch() of snbuf.h may return
EpochVals == {0, 1}

\* static alltimes InitTime(): time50, time10 and longtime are not initialised
InitTime(t50, t10, lt, ep) ==
  [time50 |-> t50, time10 |-> t10, longtime |-> lt, epoch |-> ep, exptime |-> 0,
   walltime |-> 0, oldwalltime |-> 0]

\* a static alltimes is zero-initialised
ZeroTime ==
  [time50 |-> 0, time10 |-> 0, longtime |-> 0, epoch |-> 0, exptime |-> 0,
   walltime |-> 0, oldwalltime |-> 0]

(***************************************************************************)
(* State.                                                                  *)
(***************************************************************************)
VARIABLES
  config, configknown, NHITCUT,      \* statics and main()'s configknown
  alltime, hits, passretrig, retrig, \* locals of main()
  count, stats, orphan,              \* count, stats[8], stat.orphan
  standard, problem,                 \* statics of compute_times
  alarmn, overflow, oldwalltime,     \* statics of curl.cpp
  now,                               \* time(NULL)
  pc,                                \* "run" inside the record loop, "done" after it
  chan,                              \* what the last operation posted or dropped
  pre,                               \* the limiter before the last operation
  call,                              \* the last operation and its argument
  last,                              \* what the last loop iteration computed
  dropped, reported,                 \* messages dropped / covered by a skip summary
  secreq, secfwd,                    \* requests / forwarded messages of this second
  arm,                               \* the last arming of the low threshold
  setconfigs                         \* calls of SetConfig so far

vars ==
  <<config, configknown, NHITCUT, alltime, hits, passretrig, retrig, count, stats,
    orphan, standard, problem, alarmn, overflow, oldwalltime, now, pc, chan, pre,
    call, last, dropped, reported, secreq, secfwd, arm, setconfigs>>

mainvars ==
  <<config, configknown, NHITCUT, alltime, hits, passretrig, retrig, count, stats,
    orphan, standard, problem, last, arm, setconfigs>>

NoArm == [armed |-> FALSE, T |-> 0]

NoLast ==
  [bank |-> "none", ret |-> 1, outcome |-> "none", rejected |-> FALSE,
   newepoch |-> FALSE, dd |-> 0, std0 |-> ZeroTime, problem0 |-> FALSE,
   prevlong |-> 0, epoch0 |-> 0, arm0 |-> NoArm, ct |-> ZeroTime,
   cut |-> 0, pr |-> FALSE, rt |-> FALSE, pass |-> FALSE, key |-> 0,
   stats0 |-> [i \in 0..7 |-> 0], known0 |-> FALSE, loaded |-> FALSE,
   rhdralarm |-> FALSE, runtype |-> 0, config0 |-> NoConfig, defaulted |-> FALSE,
   written |-> FALSE, alltime0 |-> ZeroTime, count0 |-> CountInit, NHITCUT0 |-> 0,
   orphan0 |-> 0, passretrig0 |-> FALSE, odd |-> NoneOdd, escaped |-> FALSE,
   drift |-> FALSE, hitpass |-> FALSE, prevpass |-> FALSE, prev50 |-> 0,
   hitarm |-> FALSE, prevarm |-> FALSE, hitrej |-> FALSE, prevrej |-> FALSE]

Init ==
  /\ config = NoConfig
  /\ configknown = FALSE
  /\ NHITCUT = 0
  /\ \E t50 \in Indeterminate, t10 \in Indeterminate, lt \in Indeterminate,
        ep \in EpochVals : alltime = InitTime(t50, t10, lt, ep)
  /\ hits = InitHit
  /\ passretrig = FALSE
  /\ retrig = FALSE
  /\ count = CountInit
  /\ stats = [i \in 0..7 |-> 0]
  /\ orphan = 0
  /\ standard = ZeroTime
  /\ problem = FALSE
  /\ alarmn = Zero5
  /\ overflow = Zero5
  /\ oldwalltime = 0
  /\ now = 1
  /\ pc = "run"
  /\ chan = <<>>
  /\ pre = [L |-> Limiter(Zero5, Zero5, 0), pending |-> 0]
  /\ call = [op |-> "init", level |-> 0]
  /\ last = NoLast
  /\ dropped = 0
  /\ reported = 0
  /\ secreq = Zero5
  /\ secfwd = Zero5
  /\ arm = NoArm
  /\ setconfigs = 0

(***************************************************************************)
(* Operations.                                                             *)
(***************************************************************************)
\* entries of a channel log
Summaries(out) == {i \in DOMAIN out : out[i].what = "summary"}
Of(out, what, c) == {i \in DOMAIN out : out[i].what = what /\ type(out[i].level) = c}

RECURSIVE Covered(_, _)
\* the messages the skip summaries of out[1..n] account for
Covered(out, n) ==
  IF n = 0 THEN 0
  ELSE Covered(out, n - 1) + (IF out[n].what = "summary" THEN out[n].n ELSE 0)

\* the limiter after the calls of one operation at wall-clock second now, with
\* the bookkeeping of what was posted
Posted(calls) ==
  LET L0 == Limiter(alarmn, overflow, oldwalltime)
      L == RunCalls(L0, calls, now)
  IN [L |-> L, pre |-> [L |-> L0, pending |-> dropped - reported],
      dropped |-> dropped + Cardinality({i \in DOMAIN L.out : L.out[i].what = "dropped"}),
      reported |-> reported + Covered(L.out, Len(L.out)),
      secreq |-> [c \in Classes |-> secreq[c] + Cardinality(Of(L.out, "message", c))
                                              + Cardinality(Of(L.out, "dropped", c))],
      secfwd |-> [c \in Classes |-> secfwd[c] + Cardinality(Of(L.out, "message", c))]]

Post(calls) ==
  \E P \in {Posted(calls)} :
     /\ alarmn' = P.L.alarmn
     /\ overflow' = P.L.overflow
     /\ oldwalltime' = P.L.oldwalltime
     /\ chan' = P.L.out
     /\ pre' = P.pre
     /\ dropped' = P.dropped
     /\ reported' = P.reported
     /\ secreq' = P.secreq
     /\ secfwd' = P.secfwd

\* the wall clock reaches the next second
Tick ==
  /\ pc = "run"
  /\ now < MaxWall
  /\ now' = now + 1
  /\ secreq' = Zero5
  /\ secfwd' = Zero5
  /\ call' = [op |-> "tick", level |-> 0]
  /\ UNCHANGED <<mainvars, alarmn, overflow, oldwalltime, pc, chan, pre, dropped,
                 reported>>

\* one call alarm(level, msg) on its own
AlarmCall(level) ==
  /\ pc = "run"
  /\ SumTo(secreq, 4) < MaxBurst
  /\ Post(<<Alarm(level)>>)
  /\ call' = [op |-> "alarm", level |-> level]
  /\ UNCHANGED <<mainvars, now, pc>>

\* the run type handled without the test of configknown: every header loads
RunHeader_Reload(runtype, known, cfg) ==
  LET load == runtype # 0
      known1 == known \/ load
  IN [config |-> IF load THEN SetConfig(runtype) ELSE cfg,
      configknown |-> known1,
      loaded |-> load,
      rhdralarm |-> runtype # 0 /\ known1,
      calls |-> (IF load THEN WriteConfig ELSE <<>>)
                \o (IF runtype # 0 /\ known1 THEN <<Alarm(30)>> ELSE <<>>)]

\* lines 614-622 of main(): the run type of the record against configknown
RunHeader(runtype, known, cfg) ==
  LET load == runtype # 0 /\ ~known
      known1 == known \/ load
  IN [config |-> IF load THEN SetConfig(runtype) ELSE cfg,
      configknown |-> known1,
      loaded |-> load,
      rhdralarm |-> runtype # 0 /\ known1,
      calls |-> (IF load THEN WriteConfig ELSE <<>>)
                \o (IF runtype # 0 /\ known1 THEN <<Alarm(30)>> ELSE <<>>)]

\* lines 611-690 of main(): what one iteration of the record loop computes on
\* record zrec; last.written tells whether it called OutZdab for the record,
\* last.hitpass is the verdict of l2filter on the latest hit record, and
\* last.prevpass and last.prev50 are the verdict and the time50 of the one before;
\* last.hitarm and last.hitrej tell whether the latest hit record armed the low
\* threshold and whether IsConsistent rejected it, last.prevarm and last.prevrej
\* the same of the one before
Body(zrec) ==
  LET hd == RunHeader(FillHeaderBuffer(zrec), configknown, config)
      rh == ReadHits(zrec, hits)
      eventn1 == count.eventn + 1
      S0 == [standard |-> standard, problem |-> problem, passretrig |-> passretrig,
             retrig |-> retrig, orphan |-> orphan, NHITCUT |-> NHITCUT]
      ct == compute_times(rh.hit, alltime, eventn1, S0, hd.config)
      at1 == updatetime(ct.newat, now)
      flush == IF at1.walltime # at1.oldwalltime THEN <<Flush>> ELSE <<>>
      usedefault == ~hd.configknown
      cfg2 == IF usedefault THEN SetConfig(0) ELSE hd.config
      defcalls == IF usedefault THEN WriteConfig \o <<Alarm(30)>> ELSE <<>>
      th == setthreshold(rh.hit.nhit, at1, ct.S.NHITCUT, cfg2)
      f == l2filter(rh.hit.nhit, rh.hit.triggertype, ct.S.passretrig, ct.S.retrig,
                    stats, th.NHITCUT, cfg2)
      seen == [NoLast EXCEPT !.bank = zrec.bank, !.ret = rh.ret,
                             !.known0 = configknown, !.loaded = hd.loaded,
                             !.rhdralarm = hd.rhdralarm, !.stats0 = stats,
                             !.runtype = zrec.runtype, !.config0 = config,
                             !.written = TRUE, !.alltime0 = alltime,
                             !.count0 = count, !.NHITCUT0 = NHITCUT,
                             !.orphan0 = orphan, !.passretrig0 = passretrig,
                             !.odd = Odd(rh.buf), !.escaped = rh.escaped,
                             !.hitpass = last.hitpass,
                             !.hitarm = last.hitarm, !.hitrej = last.hitrej]
  IN IF rh.ret = 0
     THEN [hits |-> rh.hit,
           calls |-> hd.calls \o rh.alarms \o ct.alarms \o flush \o defcalls,
           config |-> cfg2, configknown |-> TRUE,
           alltime |-> th.alltime, NHITCUT |-> th.NHITCUT,
           standard |-> ct.S.standard, problem |-> ct.S.problem,
           orphan |-> ct.S.orphan, retrig |-> ct.S.retrig,
           passretrig |-> (f.pass \/ ct.S.passretrig),
           stats |-> f.stats,
           count |-> [eventn |-> eventn1, recordn |-> count.recordn + 1],
           arm |-> IF rh.hit.nhit > cfg2.lothresh
                   THEN [armed |-> TRUE, T |-> at1.longtime]
                   ELSE arm,
           setconfigs |-> setconfigs + (IF hd.loaded THEN 1 ELSE 0)
                                     + (IF usedefault THEN 1 ELSE 0),
           last |-> [seen EXCEPT
                       !.outcome = ct.outcome, !.rejected = ct.rejected,
                       !.newepoch = ct.newepoch,
                       !.dd = ct.dd, !.std0 = standard, !.problem0 = problem,
                       !.prevlong = IF eventn1 = 1 THEN 0 ELSE alltime.longtime,
                       !.epoch0 = alltime.epoch, !.arm0 = arm,
                       !.ct = ct.newat, !.cut = th.NHITCUT,
                       !.pr = ct.S.passretrig, !.rt = ct.S.retrig,
                       !.pass = f.pass, !.key = f.key,
                       !.defaulted = usedefault, !.written = f.pass,
                       !.drift = ct.drift, !.hitpass = f.pass,
                       !.prevpass = last.hitpass, !.prev50 = hits.time50,
                       !.hitarm = rh.hit.nhit > cfg2.lothresh,
                       !.prevarm = last.hitarm,
                       !.hitrej = ct.rejected, !.prevrej = last.hitrej]]
     ELSE [hits |-> rh.hit,
           calls |-> hd.calls \o rh.alarms,
           config |-> hd.config, configknown |-> hd.configknown,
           alltime |-> alltime, NHITCUT |-> NHITCUT,
           standard |-> standard, problem |-> problem,
           orphan |-> orphan, retrig |-> retrig, passretrig |-> passretrig,
           stats |-> stats,
           count |-> [count EXCEPT !.recordn = @ + 1],
           arm |-> arm,
           setconfigs |-> setconfigs + (IF hd.loaded THEN 1 ELSE 0),
           last |-> seen]

\* one iteration of the record loop
Iterate(zrec) ==
  /\ pc = "run"
  /\ count.recordn < MaxRecords
  /\ \E B \in {Body(zrec)} :
        /\ Post(B.calls)
        /\ hits' = B.hits
        /\ config' = B.config
        /\ configknown' = B.configknown
        /\ alltime' = B.alltime
        /\ NHITCUT' = B.NHITCUT
        /\ standard' = B.standard
        /\ problem' = B.problem
        /\ orphan' = B.orphan
        /\ retrig' = B.retrig
        /\ passretrig' = B.passretrig
        /\ stats' = B.stats
        /\ count' = B.count
        /\ arm' = B.arm
        /\ setconfigs' = B.setconfigs
        /\ last' = B.last
  /\ call' = [op |-> "record", level |-> 0]
  /\ UNCHANGED <<now, pc>>

\* NextRecord returns a run header
NextRunHeader == \E r \in RunTypes : Iterate(Record("RHDR", r, 0, 0, 0, 0))

\* NextRecord returns a record that is neither a run header nor a hit record
NextOther == Iterate(Record("OTHER", 0, 0, 0, 0, 0))

\* NextRecord returns a hit record
NextHit ==
  \E n \in NhitVals, t50 \in Time50Vals, t10 \in Time10Vals, w \in WordVals :
     Iterate(Record("ZDAB", 0, n, t50, t10, w))

NextThresholdHit ==
  \E n \in ThresholdNhitVals, t50 \in ThresholdTime50Vals,
     t10 \in ThresholdTime10Vals, w \in ThresholdWordVals :
     Iterate(Record("ZDAB", 0, n, t50, t10, w))

NextFilterHit ==
  \E n \in FilterNhitVals, t50 \in FilterTime50Vals, t10 \in FilterTime10Vals,
     w \in FilterWordVals :
     Iterate(Record("ZDAB", 0, n, t50, t10, w))

\* NextRecord returns a hit record with a chain of sub-records, one on which the
\* walk of ReadHits ends inside the record
NextChainHit == \E zrec \in ChainRecords : Iterate(zrec)

NextRetrigHit ==
  \E n \in RetrigNhitVals, t50 \in RetrigTime50Vals :
     Iterate(Record("ZDAB", 0, n, t50, 0, 2))

\* NextRecord returns a hit record with more than MAX_NHIT hits
NextBadHit == Iterate(Record("ZDAB", 0, MAX_NHIT + 1, 0, 0, 0))

\* the end of main() without its call of Flusherrors
Closing_NoFlush == <<Alarm(21)>>

\* lines 691-700 of main(): the calls on the limiter after the loop
Closing == <<Flush, Alarm(21)>>

\* NextRecord returns NULL: the end of the stream
EndOfStream ==
  /\ pc = "run"
  /\ Post(Closing)
  /\ pc' = "done"
  /\ call' = [op |-> "end", level |-> 0]
  /\ UNCHANGED <<mainvars, now>>

Next == NextRunHeader \/ NextOther \/ NextHit \/ NextBadHit \/ Tick \/ EndOfStream

Spec == Init /\ [][Next]_vars

\* the same run over hit records that vary the primary clock and the hit count
NextThreshold ==
  NextRunHeader \/ NextOther \/ NextThresholdHit \/ NextBadHit \/ Tick \/ EndOfStream

SpecThreshold == Init /\ [][NextThreshold]_vars

\* the same run over hit records that vary the hit count and the trigger word
NextFilter ==
  NextRunHeader \/ NextOther \/ NextFilterHit \/ NextBadHit \/ Tick \/ EndOfStream

SpecFilter == Init /\ [][NextFilter]_vars

\* the same run over hit records that vary the sub-record chain
NextDecode ==
  NextRunHeader \/ NextOther \/ NextChainHit \/ NextBadHit \/ Tick \/ EndOfStream

SpecDecode == Init /\ [][NextDecode]_vars

\* the same run over closely spaced hit records
NextRetrig ==
  NextRunHeader \/ NextOther \/ NextRetrigHit \/ NextBadHit \/ Tick \/ EndOfStream

SpecRetrig == Init /\ [][NextRetrig]_vars

\* the limiter alone, under any sequence of requests and seconds
NextAlarm == Tick \/ \E level \in Levels : AlarmCall(level)

\* the locals of main() play no part in it: one initial state
InitAlarm == Init /\ alltime = InitTime(0, 0, 0, 0)

SpecAlarm == InitAlarm /\ [][NextAlarm]_vars

(***************************************************************************)
(* Properties.                                                             *)
(***************************************************************************)
\* the last step was a loop iteration on a hit record that ReadHits decoded
IsHit == call.op = "record" /\ last.bank = "ZDAB" /\ last.ret = 0

\* the last step was one call of alarm(), and it found the second changed
IsAlarm == call.op = "alarm"
Flushed == now # pre.L.oldwalltime

\* forced resets of the last step: its "Resetting buffers" alarms, sent or dropped
Resets == Cardinality({i \in DOMAIN chan : chan[i].what # "summary" /\ chan[i].level = 40})

\* the rollover case of claim C1 holds of the last hit record
RolloverCase ==
  /\ IsHit
  /\ last.outcome # "first"
  /\ 0 < hits.time50
  /\ hits.time50 < last.std0.time50
  /\ last.std0.time50 > maxtime - maxjump
  /\ last.std0.time50 + hits.time50 < maxtime + maxjump
  /\ last.dd < maxdrift

\* C1: a non-first hit record in the rollover case (0 < time50 < standard.time50,
\* standard.time50 > maxtime - maxjump, their sum < maxtime + maxjump, dd < maxdrift)
\* is accepted: epoch grows by exactly one, longtime = time50 + maxtime*epoch is
\* greater than the previous longtime, standard is the new state, no fault pending.
C1_RolloverAccepted ==
  RolloverCase =>
    /\ last.outcome = "accept"
    /\ last.ct.epoch = last.epoch0 + 1
    /\ last.ct.longtime = hits.time50 + maxtime * last.ct.epoch
    /\ last.ct.longtime > last.prevlong
    /\ standard = last.ct
    /\ ~problem

\* C2: a hit record rejected by IsConsistent with no fault pending causes no reset
\* and sets the fault flag; one rejected with the fault pending causes exactly one
\* forced reset, and compute_times returns epoch = 0, exptime = 0, longtime = the
\* record's time50, with standard the returned state and the fault flag clear.
C2_TwoStrike ==
  (IsHit /\ last.rejected) =>
    IF last.problem0
    THEN /\ Resets = 1
         /\ last.ct.epoch = 0
         /\ last.ct.exptime = 0
         /\ last.ct.time50 = hits.time50
         /\ last.ct.longtime = hits.time50
         /\ standard = last.ct
         /\ ~problem
    ELSE /\ Resets = 0
         /\ problem
         /\ standard = last.std0

C2_Witness ==
  /\ IsHit /\ last.rejected /\ last.problem0
  /\ last.epoch0 = 1
  /\ last.std0.longtime > hits.time50

\* C3: for every hit record after the first that does not perform the forced
\* reset (accepted, orphan or first strike), the longtime compute_times returns is
\* at least the longtime returned for the previous hit record.
C3_LongtimeMonotone ==
  (IsHit /\ last.outcome \notin {"first", "reset"}) => last.ct.longtime >= last.prevlong

C3_Witness ==
  /\ IsHit /\ last.outcome = "accept"
  /\ last.epoch0 = 1
  /\ last.ct.longtime > last.prevlong
  /\ last.ct.time10 < last.std0.time10

\* C4: once a hit record with nhit > lothresh was processed at longtime T, every
\* later hit record whose longtime lies in (T, T + lowindow] is filtered with the
\* low cut, and one with longtime >= T + lowindow + 1 and nhit <= lothresh with the
\* high cut (T the latest such record before this one).
C4_Hysteresis ==
  (IsHit /\ last.arm0.armed) =>
    /\ (/\ alltime.longtime > last.arm0.T
        /\ alltime.longtime <= last.arm0.T + config.lowindow) => NHITCUT = config.nhitlo
    /\ (/\ alltime.longtime >= last.arm0.T + config.lowindow + 1
        /\ hits.nhit <= config.lothresh) => NHITCUT = config.nhithi

\* the bucket of claim C5 for the last hit record
Bucket ==
  (IF hits.nhit > NHITCUT THEN 1 ELSE 0)
  + (IF BitAnd(hits.triggertype, config.bitmask) # 0 THEN 2 ELSE 0)
  + (IF last.pr /\ last.rt /\ hits.nhit > config.retrigcut THEN 4 ELSE 0)

\* C5: l2filter adds exactly 1 to exactly one of the 8 buckets, the one whose index
\* has bit 0 = (nhit > NHITCUT), bit 1 = ((word & bitmask) != 0), bit 2 =
\* (passretrig and retrig and nhit > retrigcut), and it accepts exactly when one of
\* the three conditions holds.
C5_Bucket ==
  IsHit =>
    /\ \A i \in 0..7 : stats[i] = last.stats0[i] + (IF i = Bucket THEN 1 ELSE 0)
    /\ last.pass = (Bucket # 0)

C5_Witness == IsHit /\ Bucket = 7 /\ stats[7] = 1 /\ stats[0] = 1

\* C6: within one second alarm() forwards at most max[c] messages of class c;
\* after max[c] + 1 requests of class c in one second exactly max[c] were forwarded
\* and overflow[c] is 1; a call that does not flush leaves the counters of the
\* other classes as they were.
C6_Budget ==
  /\ \A c \in Classes : secfwd[c] <= max[c]
  /\ \A c \in Classes : secreq[c] = max[c] + 1 => secfwd[c] = max[c] /\ overflow[c] = 1
  /\ (IsAlarm /\ ~Flushed) =>
       \A c \in Classes \ {type(call.level)} :
          alarmn[c] = pre.L.alarmn[c] /\ overflow[c] = pre.L.overflow[c]

C6_Witness ==
  /\ IsAlarm /\ ~Flushed
  /\ secreq[alarm_type.WARNING] = max[alarm_type.WARNING] + 1
  /\ chan[1].what = "dropped"

\* the classes with a suppressed count before the last step
Suppressed == {c \in Classes : pre.L.overflow[c] # 0}

\* C7: the first alarm() call after the second has changed posts one skip
\* notification for every class with a nonzero suppressed count, carrying that
\* class's count, before it handles the requested message.
C7_SummaryPerClass ==
  (IsAlarm /\ Flushed) =>
    /\ Cardinality(Summaries(chan)) = Cardinality(Suppressed)
    /\ \A c \in Suppressed : \E i \in Summaries(chan) : chan[i].n = pre.L.overflow[c]
    /\ \A i \in Summaries(chan) : i < Len(chan)

\* C7 as amended: the first alarm() call after the second has changed posts exactly
\* one error-class skip notification for all classes together if any class has a
\* nonzero suppressed count, and none otherwise, before the requested message.
C7_OneSummary ==
  IsAlarm =>
    IF Flushed /\ Suppressed # {}
    THEN /\ Len(chan) = 2
         /\ chan[1].what = "summary" /\ chan[1].level = 40
         /\ chan[2].what # "summary" /\ chan[2].level = call.level
    ELSE /\ Len(chan) = 1
         /\ chan[1].what # "summary" /\ chan[1].level = call.level

C7_Witness ==
  /\ IsAlarm /\ Flushed
  /\ Cardinality(Suppressed) = 2
  /\ Len(chan) = 2 /\ chan[1].what = "summary"

\* C8: when an alarm() call finds the second changed, the skip summary it posts
\* carries the number of messages dropped since the previous flush, no summary is
\* posted if none was, and the flush leaves all five counters of both arrays at
\* zero, so that after the call only the requested class counts 1.
C8_FlushAccounting ==
  (IsAlarm /\ Flushed) =>
    /\ IF pre.pending > 0
       THEN \E i \in DOMAIN chan :
               Summaries(chan) = {i} /\ chan[i].n = pre.pending
       ELSE Summaries(chan) = {}
    /\ overflow = Zero5
    /\ alarmn = [c \in Classes |-> IF c = type(call.level) THEN 1 ELSE 0]

C8_Witness ==
  /\ IsAlarm /\ Flushed
  /\ pre.pending = 3
  /\ pre.L.overflow[alarm_type.ERROR] = 1
  /\ Summaries(chan) # {}

C10_HeaderAlarm ==
  (call.op = "record" /\ last.bank = "RHDR") =>
    /\ last.loaded = ~last.known0
    /\ last.rhdralarm = last.known0

\* the last step was a loop iteration
IsRecord == call.op = "record"

\* C11: SetConfig is called at most once per run, either for the first run header
\* or with the default profile (and an alarm) for the first hit record when no
\* config is known; a record that arrives with the config known never changes
\* config; and config is set when setthreshold and l2filter run for a hit record.
C11_ConfigOnce ==
  /\ setconfigs <= 1
  /\ configknown = (setconfigs = 1)
  /\ IsRecord =>
       /\ ~(last.loaded /\ last.defaulted)
       /\ last.loaded => (last.bank = "RHDR" /\ ~last.known0)
       /\ last.defaulted => (IsHit /\ ~last.known0 /\ Len(chan) > 0
                             /\ chan[Len(chan)].level = 30)
       /\ last.known0 => config = last.config0
  /\ IsHit => configknown /\ config # NoConfig

C11_Witness ==
  /\ IsRecord /\ last.bank = "RHDR" /\ last.known0
  /\ last.runtype # 0
  /\ SetConfig(last.runtype) # config
  /\ config # DefaultConfig
  /\ setconfigs = 1

\* C12: a hit record with more than MAX_NHIT hits is dropped: an alarm is raised,
\* the clock state, the threshold and the histogram are left as they were, the
\* record is not written to the output, and the loop goes on to the next record.
C12_MalformedDropped ==
  (IsRecord /\ last.bank = "ZDAB" /\ hits.nhit > MAX_NHIT) =>
    /\ \E i \in DOMAIN chan : chan[i].what # "summary" /\ chan[i].level = 30
    /\ alltime = last.alltime0
    /\ NHITCUT = last.NHITCUT0
    /\ stats = last.stats0
    /\ count.eventn = last.count0.eventn
    /\ count.recordn = last.count0.recordn + 1
    /\ ~last.written

\* C13: when the walk along the sub-record chain meets a jump of more than
\* MAX_BUFFSIZE/4 words, the record is reported as a fault: an alarm is raised and
\* it is not treated as a decoded hit (the clock state, the threshold, eventn and
\* the histogram are left as they were).
C13_TruncatedFault ==
  (IsRecord /\ last.bank = "ZDAB" /\ last.escaped) =>
    /\ last.ret # 0
    /\ \E i \in DOMAIN chan : chan[i].what # "summary"
    /\ alltime = last.alltime0
    /\ NHITCUT = last.NHITCUT0
    /\ stats = last.stats0
    /\ count.eventn = last.count0.eventn

\* C14: on every return path of ReadHits every word of the record buffer was
\* swapped an even number of times, so the buffer is as it arrived.
C14_RoundTrip ==
  (IsRecord /\ last.bank = "ZDAB") => last.odd = NoneOdd

\* C15: for a hit record after the first with time50 = 0 the orphan count grows by
\* one, the time state compute_times returns equals the previous time state in
\* time50, time10, longtime, epoch and exptime, and standard and the fault flag
\* are left as they were.
C15_OrphanFrame ==
  (IsHit /\ last.count0.eventn >= 1 /\ hits.time50 = 0) =>
    /\ last.outcome = "orphan"
    /\ orphan = last.orphan0 + 1
    /\ last.ct.time50 = last.alltime0.time50
    /\ last.ct.time10 = last.alltime0.time10
    /\ last.ct.longtime = last.alltime0.longtime
    /\ last.ct.epoch = last.alltime0.epoch
    /\ last.ct.exptime = last.alltime0.exptime
    /\ standard = last.std0
    /\ problem = last.problem0

\* C16: when IsConsistent rejects a hit record and no fault is pending, the fault
\* flag is set, standard is left as it was, and the time state compute_times
\* returns is exactly standard: neither the rejected time50 and time10 nor an
\* epoch incremented inside IsConsistent is handed on.
C16_FirstStrike ==
  (IsHit /\ last.rejected /\ ~last.problem0) =>
    /\ last.outcome = "strike"
    /\ problem
    /\ standard = last.std0
    /\ last.ct = last.std0

C16_Witness ==
  /\ IsHit /\ last.rejected /\ ~last.problem0
  /\ last.newepoch
  /\ hits.time10 # last.std0.time10
  /\ hits.time50 # last.std0.time50
  /\ last.ct.epoch = last.epoch0

\* C17: for a hit record after the first with time50 # 0, IsConsistent never both
\* detects a rollover (the new-epoch alarm with epoch incremented) and rejects the
\* record, and the epoch grows only on a record accepted as a rollover.
C17_OneOutcome ==
  (IsHit /\ last.count0.eventn >= 1 /\ hits.time50 # 0) =>
    /\ ~(last.newepoch /\ last.rejected)
    /\ last.ct.epoch > last.epoch0 => (last.newepoch /\ ~last.rejected)

\* |5*(old.time10 - new.time10) - (old.time50 - new.time50)| over the integers,
\* for the last hit record and the time state before it
TrueDrift ==
  LET x == 5 * (last.alltime0.time10 - hits.time10)
           - (last.alltime0.time50 - hits.time50)
  IN IF x < 0 THEN 0 - x ELSE x

\* C18: for every hit record after the first, dd equals the absolute value
\* |5*(old.time10 - new.time10) - (old.time50 - new.time50)|, so dd >= 0, and the
\* drift warning is raised exactly when that absolute value exceeds maxdrift.
C18_DriftAbs ==
  (IsHit /\ last.count0.eventn >= 1) =>
    /\ last.dd = TrueDrift
    /\ last.dd >= 0
    /\ last.drift = (TrueDrift > maxdrift)

\* C19: a hit record meets the retrigger condition of l2filter (bucket bit 2) only
\* if the hit record right before it was accepted by l2filter and its own time50
\* is later than that record's by more than 0 and at most retrigwindow.
C19_RetriggerFollowsAccept ==
  (IsHit /\ last.key >= 4) =>
    /\ last.count0.eventn >= 1
    /\ last.prevpass
    /\ hits.time50 > last.prev50
    /\ hits.time50 - last.prev50 <= config.retrigwindow

\* C20: right after setthreshold has run for a hit record, the active cut is the
\* low cut (with nhitlo # nhithi) only if longtime <= exptime, and longtime >
\* exptime implies that the active cut is the high cut.
C20_LowCutInWindow ==
  IsHit =>
    /\ (NHITCUT = config.nhitlo /\ config.nhitlo # config.nhithi) =>
          alltime.longtime <= alltime.exptime
    /\ alltime.longtime > alltime.exptime => NHITCUT = config.nhithi

\* a record below lothresh is filtered with the low cut armed by an earlier record
C20_Witness ==
  /\ IsHit /\ last.arm0.armed
  /\ hits.nhit <= config.lothresh
  /\ alltime.longtime > last.arm0.T
  /\ NHITCUT = config.nhitlo /\ config.nhitlo # config.nhithi
  /\ alltime.longtime <= alltime.exptime

\* C21: right after setthreshold has run for a hit record, the active cut NHITCUT
\* is one of the two configured cuts, config.nhithi or config.nhitlo.
C21_CutConfigured ==
  IsHit => NHITCUT \in {config.nhithi, config.nhitlo}

\* C22: when the hit record right before armed the low threshold and this hit
\* record is rejected by IsConsistent with no fault pending, the exptime of the
\* time state that setthreshold sees for this record is the value armed by the
\* record before.
C22_StrikeKeepsWindow ==
  (IsHit /\ last.outcome = "strike" /\ last.prevarm) =>
    last.ct.exptime = last.alltime0.exptime

\* the sum of the 8 histogram buckets
StatSum ==
  stats[0] + stats[1] + stats[2] + stats[3] + stats[4] + stats[5] + stats[6] + stats[7]

\* C23: after any sequence of records the histogram buckets sum to eventn, eventn
\* is at most recordn, every record read adds one to recordn and adds one to
\* eventn exactly when ReadHits returned 0 for it, and no bucket decreases.
C23_Counters ==
  /\ StatSum = count.eventn
  /\ count.eventn <= count.recordn
  /\ IsRecord =>
       /\ count.recordn = last.count0.recordn + 1
       /\ count.eventn = last.count0.eventn + (IF last.ret = 0 THEN 1 ELSE 0)
       /\ \A i \in 0..7 : stats[i] >= last.stats0[i]

\* hit records in two buckets, one of them rejected, among other records
C23_Witness ==
  /\ IsHit /\ last.key = 0
  /\ count.eventn >= 2 /\ count.eventn < count.recordn
  /\ \E i \in 1..7 : stats[i] > 0

\* C24: compute_times performs the forced reset for a hit record only if the hit
\* record right before it was rejected by IsConsistent, and a hit record that is
\* not rejected (accepted, or an orphan with time50 = 0) leaves no fault pending.
C24_ResetAfterTwo ==
  /\ (IsHit /\ last.outcome = "reset") => last.prevrej
  /\ (IsHit /\ ~last.rejected) => ~problem

====
